---- MODULE Spec2Model ----
(***************************************************************************)
(* A model of the jetemail-node client: the JetEmail client (credential,   *)
(* base URL, request dispatch), its two resources (Emails.send and         *)
(* Batch.send, with their local validation) and the JetEmailError type.    *)
(*                                                                         *)
(* JavaScript values are records [t, v]: t is the type tag ("undefined",   *)
(* "string", "array") and v the text.  URLs are sequences of characters,   *)
(* so that the trailing-slash rule of the constructor is computed.  A      *)
(* serialized JSON object is the sequence of its members in source order.  *)
(***************************************************************************)
EXTENDS Integers, Sequences, FiniteSets, TLC

\* ------------------------------------------------------------------ bounds
\* Number of send calls a caller issues on the client (they may overlap).
MaxCalls == 2
\* Longest batch whose items are enumerated exhaustively.
MaxShortBatch == 2

\* ---------------------------------------------------------- program values
DEFAULT_BASE_URL ==
  << "h","t","t","p","s",":","/","/","a","p","i",".",
     "j","e","t","e","m","a","i","l",".","c","o","m" >>

\* The batch size limit of Batch.send.
MAX_BATCH_SIZE == 100

EMAIL_ENDPOINT == << "/","e","m","a","i","l" >>
BATCH_ENDPOINT == << "/","e","m","a","i","l","-","b","a","t","c","h" >>

\* ------------------------------------------------------- JavaScript values
JSUndefined == [t |-> "undefined", v |-> ""]
Str(s) == [t |-> "string", v |-> s]
Arr(s) == [t |-> "array", v |-> s]

\* JavaScript truthiness, as tested by `!x` and `a || b`.
Truthy(x) ==
  CASE x.t = "undefined" -> FALSE
    [] x.t = "string"    -> x.v # ""
    [] x.t = "array"     -> TRUE

\* a || b
OrElse(a, b) == IF Truthy(a) THEN a ELSE b

\* The fields of SendEmailOptions that the model carries, in source order.
OptionFields == << "from", "to", "subject", "html", "text", "cc" >>

\* ------------------------------------------------------------------ errors
NoBody == [t |-> "undefined", message |-> JSUndefined, error |-> JSUndefined,
           id |-> JSUndefined, response |-> JSUndefined,
           summary |-> << >>, results |-> << >>]

\* Faulty variant: a validation failure is raised as the structured API
\* error, with the status of a bad request.
PlainError_structured(message) ==
  [name |-> "JetEmailError", message |-> message, statusCode |-> {400},
   response |-> NoBody]

\* new Error(message): no statusCode, no response.
PlainError(message) ==
  [name |-> "Error", message |-> message, statusCode |-> {}, response |-> NoBody]

\* The TypeError the engine raises on a property read of null.
TypeError(message) ==
  [name |-> "TypeError", message |-> message, statusCode |-> {}, response |-> NoBody]

\* The rejection reason of fetch itself (network failure): not an SDK error.
TransportError ==
  [name |-> "FetchFailure", message |-> "fetch failed", statusCode |-> {},
   response |-> NoBody]

\* Another rejection reason of fetch: the caller's signal aborted the request.
AbortError ==
  [name |-> "AbortError", message |-> "This operation was aborted", statusCode |-> {},
   response |-> NoBody]

NoError == [name |-> "none", message |-> "", statusCode |-> {}, response |-> NoBody]

\* new JetEmailError(message, statusCode, response?)
JetEmailError(message, statusCode, response) ==
  [name |-> "JetEmailError", message |-> message, statusCode |-> {statusCode},
   response |-> response]

\* A completion of synchronous code: normal, or a throw of `error`.
Normal == [threw |-> FALSE, error |-> NoError]
Throw(e) == [threw |-> TRUE, error |-> e]

\* -------------------------------------------------------------- validation
\* Faulty variant of Emails.validateEmailOptions: the subject check is lost.
Emails_validateEmailOptions_noSubject(options) ==
  IF ~Truthy(options.from) THEN Throw(PlainError("JetEmail: \"from\" is required"))
  ELSE IF ~Truthy(options.to) THEN Throw(PlainError("JetEmail: \"to\" is required"))
  ELSE IF ~Truthy(options.html) /\ ~Truthy(options.text)
    THEN Throw(PlainError("JetEmail: at least one of \"html\" or \"text\" is required"))
  ELSE Normal

\* Faulty variant of Emails.validateEmailOptions: the recipient is checked
\* before the sender.
Emails_validateEmailOptions_toFirst(options) ==
  IF ~Truthy(options.to) THEN Throw(PlainError("JetEmail: \"to\" is required"))
  ELSE IF ~Truthy(options.from) THEN Throw(PlainError("JetEmail: \"from\" is required"))
  ELSE IF ~Truthy(options.subject)
    THEN Throw(PlainError("JetEmail: \"subject\" is required"))
  ELSE IF ~Truthy(options.html) /\ ~Truthy(options.text)
    THEN Throw(PlainError("JetEmail: at least one of \"html\" or \"text\" is required"))
  ELSE Normal

\* Emails.validateEmailOptions
Emails_validateEmailOptions(options) ==
  IF ~Truthy(options.from) THEN Throw(PlainError("JetEmail: \"from\" is required"))
  ELSE IF ~Truthy(options.to) THEN Throw(PlainError("JetEmail: \"to\" is required"))
  ELSE IF ~Truthy(options.subject)
    THEN Throw(PlainError("JetEmail: \"subject\" is required"))
  ELSE IF ~Truthy(options.html) /\ ~Truthy(options.text)
    THEN Throw(PlainError("JetEmail: at least one of \"html\" or \"text\" is required"))
  ELSE Normal

\* Batch.validateEmailOptions (a second copy of the same checks)
Batch_validateEmailOptions(options) ==
  IF ~Truthy(options.from) THEN Throw(PlainError("JetEmail: \"from\" is required"))
  ELSE IF ~Truthy(options.to) THEN Throw(PlainError("JetEmail: \"to\" is required"))
  ELSE IF ~Truthy(options.subject)
    THEN Throw(PlainError("JetEmail: \"subject\" is required"))
  ELSE IF ~Truthy(options.html) /\ ~Truthy(options.text)
    THEN Throw(PlainError("JetEmail: at least one of \"html\" or \"text\" is required"))
  ELSE Normal

\* Faulty variant of the forEach callback: the position is reported one-based.
Batch_validateItem_oneBased(email, index) ==
  LET r == Batch_validateEmailOptions(email) IN
  IF r.threw
    THEN Throw(PlainError("JetEmail: email at index " \o ToString(index + 1)
                          \o " is invalid - " \o r.error.message))
    ELSE Normal

\* The callback of emails.forEach: validate one item, wrap what it throws.
\* `index` is the zero-based array index.
Batch_validateItem(email, index) ==
  LET r == Batch_validateEmailOptions(email) IN
  IF r.threw
    THEN Throw(PlainError("JetEmail: email at index " \o ToString(index)
                          \o " is invalid - " \o r.error.message))
    ELSE Normal

\* emails.forEach(...): the callback runs on the items in order from 1-based
\* position i, and the first throw of the callback ends the loop: the loop
\* completes with the throw of the lowest position whose callback throws.
Batch_forEach(items, i) ==
  LET throwing == { j \in i..Len(items) : Batch_validateItem(items[j], j - 1).threw }
  IN IF throwing = {} THEN Normal
     ELSE LET first == CHOOSE j \in throwing : \A k \in throwing : j <= k
          IN Batch_validateItem(items[first], first - 1)

\* Faulty variant of Batch.send's validation: the size limit is not checked.
Batch_validate_noSizeCheck(emails) ==
  IF ~emails.isArray \/ Len(emails.items) = 0
    THEN Throw(PlainError("JetEmail: emails array is required and must not be empty"))
  ELSE Batch_forEach(emails.items, 1)

\* Faulty variant of Batch.send's validation: the items are not validated.
Batch_validate_noItems(emails) ==
  IF ~emails.isArray \/ Len(emails.items) = 0
    THEN Throw(PlainError("JetEmail: emails array is required and must not be empty"))
  ELSE IF Len(emails.items) > MAX_BATCH_SIZE
    THEN Throw(PlainError("JetEmail: maximum batch size is 100 emails"))
  ELSE Normal

\* The validation part of Batch.send.  `emails` is [isArray, items]: the
\* argument with what Array.isArray answers for it and its indexed items.
Batch_validate(emails) ==
  IF ~emails.isArray \/ Len(emails.items) = 0
    THEN Throw(PlainError("JetEmail: emails array is required and must not be empty"))
  ELSE IF Len(emails.items) > MAX_BATCH_SIZE
    THEN Throw(PlainError("JetEmail: maximum batch size is 100 emails"))
  ELSE Batch_forEach(emails.items, 1)

\* ------------------------------------------------------------ serialization
\* JSON.stringify of one SendEmailOptions object: the members whose value is
\* not undefined, in source order (an undefined-valued member is omitted).
RECURSIVE JSON_stringifyFields(_, _)
JSON_stringifyFields(options, i) ==
  IF i > Len(OptionFields) THEN << >>
  ELSE LET key == OptionFields[i] IN
       (IF options[key].t = "undefined" THEN << >>
        ELSE << [key |-> key, value |-> options[key]] >>)
       \o JSON_stringifyFields(options, i + 1)

JSON_stringifyOptions(options) ==
  [t |-> "object", members |-> JSON_stringifyFields(options, 1)]

\* JSON.stringify({ emails }): one member, the array of the items in order.
JSON_stringifyBatch(emails) ==
  [t |-> "object",
   members |-> << [key |-> "emails",
                   value |-> [t |-> "array",
                              items |-> [i \in 1..Len(emails.items) |->
                                           JSON_stringifyOptions(emails.items[i])]]] >>]

\* ------------------------------------------------------------------ client
UndefinedUrl == [t |-> "undefined", chars |-> << >>]
Url(chars) == [t |-> "string", chars |-> chars]

\* The constructor's argument: a bare string, or a JetEmailConfig object.
StringArg(s) == [t |-> "string", v |-> s, apiKey |-> JSUndefined, baseUrl |-> UndefinedUrl]
ConfigArg(apiKey, baseUrl) == [t |-> "object", v |-> "", apiKey |-> apiKey, baseUrl |-> baseUrl]

\* Faulty variant: every trailing "/" is removed (as /\/+$/ would).
RECURSIVE StripTrailingSlash_all(_)
StripTrailingSlash_all(chars) ==
  IF Len(chars) > 0 /\ chars[Len(chars)] = "/"
    THEN StripTrailingSlash_all(SubSeq(chars, 1, Len(chars) - 1))
    ELSE chars

\* baseUrl.replace(/\/$/, ''): one "/" at the very end is removed.
StripTrailingSlash(chars) ==
  IF Len(chars) > 0 /\ chars[Len(chars)] = "/"
    THEN SubSeq(chars, 1, Len(chars) - 1)
    ELSE chars

\* config.baseUrl?.replace(/\/$/, '') ?? DEFAULT_BASE_URL
NormalizeBaseUrl(baseUrl) ==
  IF baseUrl.t = "undefined" THEN DEFAULT_BASE_URL
  ELSE StripTrailingSlash(baseUrl.chars)

\* No constructor call yet.
NoArg == [t |-> "none", v |-> "", apiKey |-> JSUndefined, baseUrl |-> UndefinedUrl]

NoClient == [constructed |-> FALSE, apiKey |-> "", baseUrl |-> << >>]

\* new JetEmail(configOrApiKey): the completion and the resulting object.
JetEmail_constructor(configOrApiKey) ==
  LET config == IF configOrApiKey.t = "string"
                  THEN [apiKey |-> Str(configOrApiKey.v), baseUrl |-> UndefinedUrl]
                  ELSE [apiKey |-> configOrApiKey.apiKey,
                        baseUrl |-> configOrApiKey.baseUrl]
  IN IF ~Truthy(config.apiKey)
       THEN [completion |-> Throw(PlainError("JetEmail: apiKey is required")),
             object |-> NoClient]
       ELSE [completion |-> Normal,
             object |-> [constructed |-> TRUE, apiKey |-> config.apiKey.v,
                         baseUrl |-> NormalizeBaseUrl(config.baseUrl)]]

\* Faulty variant: the credential is sent without the "Bearer " scheme.
JetEmail_fetchArgs_noBearer(self, endpoint, body) ==
  [method |-> "POST",
   url |-> self.baseUrl \o endpoint,
   headers |-> [ContentType |-> "application/json", Authorization |-> self.apiKey],
   body |-> body]

\* The argument of fetch in JetEmail.request.
JetEmail_fetchArgs(self, endpoint, body) ==
  [method |-> "POST",
   url |-> self.baseUrl \o endpoint,
   headers |-> [ContentType |-> "application/json",
                Authorization |-> "Bearer " \o self.apiKey],
   body |-> body]

\* Response.ok of the Fetch API, as read by JetEmail.request.
ResponseOk(status) == status >= 200 /\ status <= 299

\* Faulty variant: the fallback message of the other branch is used.
JetEmail_onUndecodable_unknown(status) ==
  Throw(JetEmailError("Unknown error", status, NoBody))

\* Faulty variant: the transport failure is wrapped in the structured error.
JetEmail_onFetchRejected_wrapped(reason) ==
  Throw(JetEmailError(reason.message, 0, NoBody))

\* JetEmail.request when `await fetch(...)` throws `reason`: there is no
\* try/catch around it, so `reason` itself leaves the function.
JetEmail_onFetchRejected(reason) == Throw(reason)

\* JetEmail.request after response.json() rejected.
JetEmail_onUndecodable(status) ==
  Throw(JetEmailError("Request failed with status " \o ToString(status), status, NoBody))

\* errorResponse.message || errorResponse.error || 'Unknown error'
JetEmail_errorMessage(data) ==
  OrElse(OrElse(data.message, data.error), Str("Unknown error")).v

\* JetEmail.request after response.json() resolved with `data`.  Reading a
\* property of null raises a TypeError before any JetEmailError is built.
JetEmail_onDecoded(status, ok, data) ==
  IF ~ok
    THEN IF data.t = "null"
           THEN Throw(TypeError("Cannot read properties of null (reading 'message')"))
           ELSE Throw(JetEmailError(JetEmail_errorMessage(data), status, data))
    ELSE Normal

\* Faulty variant: the summary of a batch result is recomputed from its
\* results list instead of being passed through.
JetEmail_returnValue_recount(data) ==
  IF data.results = << >> THEN data
  ELSE [data EXCEPT !.summary =
          << Len(data.results),
             Cardinality({ i \in 1..Len(data.results) : data.results[i].status = "success" }),
             Cardinality({ i \in 1..Len(data.results) : data.results[i].status = "error" }) >>]

\* `return data as T`: the decoded body itself.
JetEmail_returnValue(data) == data

\* Faulty variant: the function is not async, so a throw of its body reaches
\* the caller directly and no promise is returned.
SyncReturn(completion) ==
  IF completion.threw
    THEN [thrown |-> TRUE, promise |-> "none", error |-> completion.error]
    ELSE [thrown |-> FALSE, promise |-> "pending", error |-> NoError]

\* What the caller of an async function gets when its synchronous part ends
\* with `completion`: always a promise, rejected if the body threw.
AsyncReturn(completion) ==
  IF completion.threw
    THEN [thrown |-> FALSE, promise |-> "rejected", error |-> completion.error]
    ELSE [thrown |-> FALSE, promise |-> "pending", error |-> NoError]

\* ------------------------------------------------------------------- state
VARIABLES
  client,     \* the JetEmail object: [constructed, apiKey, baseUrl]
  ctorArg,    \* the argument of the last `new JetEmail(...)`
  ctorError,  \* what the last `new JetEmail(...)` threw (NoError if nothing)
  calls,      \* per send call: position, arguments, promise and outcome
  requests,   \* the fetch invocations so far, in order: [call, args]
  replies     \* what the transport answered to each request (same index)

vars == << client, ctorArg, ctorError, calls, requests, replies >>

CallIds == 1..MaxCalls

Opt(from, to, subject, html, text, cc) ==
  [from |-> from, to |-> to, subject |-> subject, html |-> html, text |-> text,
   cc |-> cc]

Batch(isArray, items) == [isArray |-> isArray, items |-> items]

NoOptions == Opt(JSUndefined, JSUndefined, JSUndefined, JSUndefined, JSUndefined,
                 JSUndefined)
NoEmails == Batch(FALSE, << >>)
NoResponse == [status |-> 0, ok |-> FALSE]

IdleCall ==
  [pc |-> "idle", op |-> "none", options |-> NoOptions, emails |-> NoEmails,
   thrown |-> FALSE, promise |-> "none", error |-> NoError, value |-> NoBody,
   req |-> 0, response |-> NoResponse]

PendingReply ==
  [state |-> "pending", status |-> 0, body |-> "unread", data |-> NoBody,
   failure |-> NoError]

Init ==
  /\ client = NoClient
  /\ ctorArg = NoArg
  /\ ctorError = NoError
  /\ calls = [c \in CallIds |-> IdleCall]
  /\ requests = << >>
  /\ replies = << >>

\* ----------------------------------------------------------------- actions
\* new JetEmail(configOrApiKey)
Construct(configOrApiKey) ==
  /\ ~client.constructed
  /\ LET r == JetEmail_constructor(configOrApiKey) IN
       /\ client' = r.object
       /\ ctorArg' = configOrApiKey
       /\ ctorError' = r.completion.error
  /\ UNCHANGED << calls, requests, replies >>

\* Calls are numbered in the order the caller makes them.
CanStart(c) ==
  /\ client.constructed
  /\ calls[c].pc = "idle"
  /\ IF c = 1 THEN TRUE ELSE calls[c - 1].pc # "idle"

\* The synchronous part of a send: validation (`v` is its completion), then
\* JetEmail.request up to its first await, i.e. the call of fetch.
Dispatch(c, started, v, endpoint, body) ==
  LET r == AsyncReturn(v) IN
  IF v.threw
    THEN /\ calls' = [calls EXCEPT ![c] =
                        [started EXCEPT !.pc = "done", !.thrown = r.thrown,
                                        !.promise = r.promise, !.error = r.error]]
         /\ UNCHANGED << requests, replies >>
    ELSE /\ requests' = Append(requests,
                               [call |-> c,
                                args |-> JetEmail_fetchArgs(client, endpoint, body)])
         /\ replies' = Append(replies, PendingReply)
         /\ calls' = [calls EXCEPT ![c] =
                        [started EXCEPT !.pc = "fetch", !.thrown = r.thrown,
                                        !.promise = r.promise,
                                        !.req = Len(requests) + 1]]

\* jetemail.email.send(options)
EmailSend(c, options) ==
  /\ CanStart(c)
  /\ Dispatch(c, [calls[c] EXCEPT !.op = "email", !.options = options],
              Emails_validateEmailOptions(options),
              EMAIL_ENDPOINT, JSON_stringifyOptions(options))
  /\ UNCHANGED << client, ctorArg, ctorError >>

\* jetemail.batch.send(emails)
BatchSend(c, emails) ==
  /\ CanStart(c)
  /\ Dispatch(c, [calls[c] EXCEPT !.op = "batch", !.emails = emails],
              Batch_validate(emails),
              BATCH_ENDPOINT, JSON_stringifyBatch(emails))
  /\ UNCHANGED << client, ctorArg, ctorError >>

\* Faulty variant: the response is kept in a field of the client instead of
\* a local variable, so every call waiting on its body now reads this one.
FetchResolve_shared(c, status) ==
  /\ calls[c].pc = "fetch"
  /\ calls' = [d \in CallIds |->
                IF d = c
                  THEN [calls[d] EXCEPT !.pc = "json",
                                        !.response = [status |-> status,
                                                      ok |-> ResponseOk(status)]]
                ELSE IF calls[d].pc = "json"
                  THEN [calls[d] EXCEPT !.response = [status |-> status,
                                                      ok |-> ResponseOk(status)]]
                ELSE calls[d]]
  /\ replies' = [replies EXCEPT ![calls[c].req].state = "responded",
                                ![calls[c].req].status = status]
  /\ UNCHANGED << client, ctorArg, ctorError, requests >>

\* `await fetch(...)` resumes with a response of the given status.
FetchResolve(c, status) ==
  /\ calls[c].pc = "fetch"
  /\ calls' = [calls EXCEPT ![c].pc = "json",
                            ![c].response = [status |-> status,
                                             ok |-> ResponseOk(status)]]
  /\ replies' = [replies EXCEPT ![calls[c].req].state = "responded",
                                ![calls[c].req].status = status]
  /\ UNCHANGED << client, ctorArg, ctorError, requests >>

\* `await fetch(...)` throws: the promise of fetch was rejected with `reason`.
\* The function ends there: response.json() is never called.
FetchReject(c, reason) ==
  /\ calls[c].pc = "fetch"
  /\ calls' = [calls EXCEPT ![c].pc = "done", ![c].promise = "rejected",
                            ![c].error = JetEmail_onFetchRejected(reason).error]
  /\ replies' = [replies EXCEPT ![calls[c].req].state = "failed",
                                ![calls[c].req].failure = reason]
  /\ UNCHANGED << client, ctorArg, ctorError, requests >>

\* `await response.json()` resumes with the decoded body.
JsonResolve(c, data) ==
  /\ calls[c].pc = "json"
  /\ LET r == JetEmail_onDecoded(calls[c].response.status, calls[c].response.ok, data)
     IN calls' = [calls EXCEPT ![c] =
                    IF r.threw
                      THEN [@ EXCEPT !.pc = "done", !.promise = "rejected",
                                     !.error = r.error]
                      ELSE [@ EXCEPT !.pc = "done", !.promise = "fulfilled",
                                     !.value = JetEmail_returnValue(data)]]
  /\ replies' = [replies EXCEPT ![calls[c].req].body = "decoded",
                                ![calls[c].req].data = data]
  /\ UNCHANGED << client, ctorArg, ctorError, requests >>

\* `await response.json()` throws: the body is not JSON.
JsonReject(c) ==
  /\ calls[c].pc = "json"
  /\ calls' = [calls EXCEPT ![c].pc = "done", ![c].promise = "rejected",
                            ![c].error =
                              JetEmail_onUndecodable(calls[c].response.status).error]
  /\ replies' = [replies EXCEPT ![calls[c].req].body = "undecodable"]
  /\ UNCHANGED << client, ctorArg, ctorError, requests >>

\* ------------------------------------------------------------------ inputs
\* Decoded response bodies.
Body(t, message, error, id, response, summary, results) ==
  [t |-> t, message |-> message, error |-> error, id |-> id,
   response |-> response, summary |-> summary, results |-> results]

ItemSuccess(id) == [status |-> "success", id |-> id, response |-> "queued", error |-> ""]
ItemError(msg) == [status |-> "error", id |-> "", response |-> "", error |-> msg]

SendOk == Body("object", JSUndefined, JSUndefined, Str("abc"), Str("queued"), << >>, << >>)
ErrMessage == Body("object", Str("invalid recipient"), JSUndefined, JSUndefined,
                   JSUndefined, << >>, << >>)
ErrBoth == Body("object", Str("bad request"), Str("E_BAD"), JSUndefined, JSUndefined,
                << >>, << >>)
ErrOnly == Body("object", JSUndefined, Str("unauthorized"), JSUndefined, JSUndefined,
                << >>, << >>)
ErrEmptyMessage == Body("object", Str(""), Str("E_EMPTY"), JSUndefined, JSUndefined,
                        << >>, << >>)
EmptyObject == Body("object", JSUndefined, JSUndefined, JSUndefined, JSUndefined,
                    << >>, << >>)
JsonNull == Body("null", JSUndefined, JSUndefined, JSUndefined, JSUndefined, << >>, << >>)
JsonString == Body("string", JSUndefined, JSUndefined, JSUndefined, JSUndefined,
                   << >>, << >>)
\* A batch result with one error-tagged outcome.
BatchPartial == Body("object", JSUndefined, JSUndefined, JSUndefined, JSUndefined,
                     << 2, 1, 1 >>, << ItemSuccess("m1"), ItemError("bounced") >>)
\* A batch result whose summary disagrees with its results list.
BatchBadSummary == Body("object", JSUndefined, JSUndefined, JSUndefined, JSUndefined,
                        << 5, 5, 0 >>, << ItemError("rejected") >>)

AllBodies == { SendOk, ErrMessage, ErrBoth, ErrOnly, ErrEmptyMessage, EmptyObject,
               JsonNull, JsonString, BatchPartial, BatchBadSummary }
AllStatuses == { 200, 299, 300, 400, 500 }
AllFailures == { TransportError, AbortError }

\* Every SendEmailOptions over these field values.
AllOptions ==
  [from : { JSUndefined, Str(""), Str("A <a@x.com>") },
   to : { JSUndefined, Str("b@y.com"), Arr("") },
   subject : { JSUndefined, Str("Hi") },
   html : { JSUndefined, Str(""), Str("<p>hello</p>") },
   text : { JSUndefined, Str("hello") },
   cc : { JSUndefined, Str("c@z.com") }]

ValidItem == Opt(Str("A <a@x.com>"), Str("b@y.com"), Str("Hi"), Str("<p>hello</p>"),
                 JSUndefined, JSUndefined)
ValidTextItem == Opt(Str("A <a@x.com>"), Arr(""), Str("Hi"), Str(""), Str("hello"),
                     Str("c@z.com"))
NoFromItem == [ValidItem EXCEPT !.from = JSUndefined]
NoToItem == [ValidItem EXCEPT !.to = JSUndefined]
NoSubjectItem == [ValidItem EXCEPT !.subject = JSUndefined]
NoContentItem == [ValidItem EXCEPT !.html = Str("")]
NoFromNoContentItem == [ValidItem EXCEPT !.from = Str(""), !.html = JSUndefined]

ItemKinds == { ValidItem, ValidTextItem, NoFromItem, NoToItem, NoSubjectItem,
               NoContentItem, NoFromNoContentItem }

\* Arrays of up to MaxShortBatch items, every combination of ItemKinds.
ShortBatches ==
  { Batch(TRUE, items) : items \in UNION { [1..n -> ItemKinds] : n \in 0..MaxShortBatch } }

\* Arguments that are not arrays: undefined-like, and an array-like object.
NonLists == { Batch(FALSE, << >>), Batch(FALSE, << ValidItem >>) }

\* Arrays around the size limit: valid items, except a missing subject at
\* position p and a missing recipient at position q (0: nowhere).
LongItems(n, p, q) ==
  [i \in 1..n |-> IF i = p THEN NoSubjectItem
                  ELSE IF i = q THEN NoToItem ELSE ValidItem]

LongBatches ==
  { Batch(TRUE, LongItems(n, p, q)) :
      n \in { MAX_BATCH_SIZE, MAX_BATCH_SIZE + 1 },
      p \in { 0, 1, MAX_BATCH_SIZE },
      q \in { 0, 2, MAX_BATCH_SIZE + 1 } }

AllBatches == ShortBatches \cup NonLists \cup LongBatches

AllBaseUrls ==
  { UndefinedUrl, Url(<< >>), Url(<< "/" >>), Url(<< "h" >>), Url(<< "h", "/" >>),
    Url(<< "h", "/", "/" >>), Url(<< "h", "/", "v" >>) }

AllConfigs ==
  { StringArg(""), StringArg("sk_live_1") }
  \cup { ConfigArg(k, b) : k \in { JSUndefined, Str(""), Str("sk_test_2") },
                           b \in AllBaseUrls }

\* The smaller universe of the runs with overlapping calls.
SampleConfigs == { StringArg(""), StringArg("sk_live_1"),
                   ConfigArg(Str("sk_test_2"), Url(<< "h", "/" >>)) }
SampleOptions == { ValidItem, NoSubjectItem }
SampleBatches == { Batch(TRUE, << ValidItem, ValidTextItem >>),
                   Batch(TRUE, << ValidItem, NoToItem >>),
                   Batch(TRUE, << >>),
                   Batch(FALSE, << ValidItem >>),
                   Batch(TRUE, LongItems(MAX_BATCH_SIZE + 1, 0, 0)),
                   Batch(TRUE, LongItems(MAX_BATCH_SIZE + 1, 1, 0)) }
SampleStatuses == { 200, 500 }
SampleBodies == { SendOk, ErrMessage, JsonNull }
SampleFailures == { TransportError }

\* ----------------------------------------------------------- specifications
\* Up to MaxCalls calls on one client, in flight together.
Next ==
  \/ \E cfg \in SampleConfigs : Construct(cfg)
  \/ \E c \in CallIds : \E options \in SampleOptions : EmailSend(c, options)
  \/ \E c \in CallIds : \E emails \in SampleBatches : BatchSend(c, emails)
  \/ \E c \in CallIds : \E status \in SampleStatuses : FetchResolve(c, status)
  \/ \E c \in CallIds : \E reason \in SampleFailures : FetchReject(c, reason)
  \/ \E c \in CallIds : \E data \in SampleBodies : JsonResolve(c, data)
  \/ \E c \in CallIds : JsonReject(c)

Spec == Init /\ [][Next]_vars

\* One call, over every input, configuration and response of the universe.
NextOne ==
  \/ \E cfg \in AllConfigs : Construct(cfg)
  \/ \E options \in AllOptions : EmailSend(1, options)
  \/ \E emails \in AllBatches : BatchSend(1, emails)
  \/ \E status \in AllStatuses : FetchResolve(1, status)
  \/ \E reason \in AllFailures : FetchReject(1, reason)
  \/ \E data \in AllBodies : JsonResolve(1, data)
  \/ JsonReject(1)

SpecOne == Init /\ [][NextOne]_vars

\* ================================================================== claims
\* What the specification calls a missing field: absent, or the empty string.
Missing(x) == x = JSUndefined \/ x = Str("")

\* The four-field rule of the specification for one send request.
RequestInvalid(o) ==
  \/ Missing(o.from)
  \/ Missing(o.to)
  \/ Missing(o.subject)
  \/ (Missing(o.html) /\ Missing(o.text))

\* The input of a call fails local validation, in the specification's terms.
FailsLocalValidation(call) ==
  IF call.op = "email" THEN RequestInvalid(call.options)
  ELSE \/ ~call.emails.isArray
       \/ Len(call.emails.items) = 0
       \/ Len(call.emails.items) > 100
       \/ \E i \in 1..Len(call.emails.items) : RequestInvalid(call.emails.items[i])

Started(c) == calls[c].pc # "idle"
RequestsOf(c) == { i \in 1..Len(requests) : requests[i].call = c }
Failed(c) == calls[c].error # NoError /\ (calls[c].thrown \/ calls[c].promise = "rejected")

\* C1: a send call whose input fails local validation (a request lacking from,
\* to or subject, or both html and text; a batch that is not a list, is empty,
\* has more than 100 items or holds such an invalid item) has ended in an error
\* and no request of that call exists, in any state.
C1_InvalidInputNeverReachesNetwork ==
  \A c \in CallIds :
    (Started(c) /\ FailsLocalValidation(calls[c]))
      => /\ calls[c].pc = "done"
         /\ Failed(c)
         /\ RequestsOf(c) = {}
         /\ calls[c].req = 0

\* A batch of exactly 100 items whose last item alone is invalid was rejected
\* without a request.
C1_Witness ==
  /\ calls[1].op = "batch"
  /\ calls[1].emails = Batch(TRUE, LongItems(100, 100, 0))
  /\ Failed(1)
  /\ requests = << >>

\* C2: the number of POST requests issued equals the number of calls that
\* passed local validation; every such call has exactly one request, whatever
\* the response was, and no call has a second one.
C2_OneRequestPerValidCall ==
  /\ Len(requests)
       = Cardinality({ c \in CallIds : Started(c) /\ ~FailsLocalValidation(calls[c]) })
  /\ \A i \in 1..Len(requests) : requests[i].args.method = "POST"
  /\ \A c \in CallIds :
       Cardinality(RequestsOf(c))
         = IF Started(c) /\ ~FailsLocalValidation(calls[c]) THEN 1 ELSE 0

\* Two calls have ended, one on a decodable 500 and one on an undecodable
\* body; two requests exist.
C2_Witness ==
  /\ Len(requests) = 2
  /\ \E a, b \in CallIds :
       /\ a # b
       /\ calls[a].pc = "done" /\ calls[b].pc = "done"
       /\ replies[calls[a].req].body = "decoded"
       /\ replies[calls[a].req].status = 500
       /\ replies[calls[b].req].body = "undecodable"

\* The reply to the request of call c.
ReplyOf(c) == replies[calls[c].req]
Answered(c) == calls[c].req # 0 /\ calls[c].pc = "done"
Is2xx(status) == status \in 200..299

\* The message the specification gives a structured error for a decoded
\* body: its `message` if present, otherwise its `error`, otherwise a fixed
\* text ("present" read as: defined and not empty).
ExpectedApiMessage(data) ==
  IF ~Missing(data.message) THEN data.message.v
  ELSE IF ~Missing(data.error) THEN data.error.v
  ELSE "Unknown error"

\* C3: for every non-2xx response whose body decodes, the send fails with a
\* JetEmailError whose statusCode is the response status, whose response is
\* the full decoded body and whose message is the body's `message`, else its
\* `error`, else "Unknown error".
C3_Non2xxGivesStructuredError ==
  \A c \in CallIds :
    (Answered(c) /\ ReplyOf(c).body = "decoded" /\ ~Is2xx(ReplyOf(c).status))
      => /\ calls[c].promise = "rejected"
         /\ calls[c].error.name = "JetEmailError"
         /\ calls[c].error.statusCode = { ReplyOf(c).status }
         /\ calls[c].error.response = ReplyOf(c).data
         /\ calls[c].error.message = ExpectedApiMessage(ReplyOf(c).data)

\* C4: whenever the response body cannot be decoded, whatever the status (2xx
\* included), the send fails with a JetEmailError whose statusCode is the
\* response status, whose message is "Request failed with status <status>" and
\* whose response field is not populated.
C4_UndecodableBodyGivesGenericError ==
  \A c \in CallIds :
    (Answered(c) /\ ReplyOf(c).body = "undecodable")
      => /\ calls[c].promise = "rejected"
         /\ calls[c].error.name = "JetEmailError"
         /\ calls[c].error.statusCode = { ReplyOf(c).status }
         /\ calls[c].error.message
              = "Request failed with status " \o ToString(ReplyOf(c).status)
         /\ calls[c].error.response.t = "undefined"

\* A 200 response with an undecodable body ended a batch send in an error.
C4_Witness ==
  /\ calls[1].op = "batch"
  /\ Answered(1)
  /\ ReplyOf(1).body = "undecodable"
  /\ ReplyOf(1).status = 200
  /\ calls[1].error.message = "Request failed with status 200"

FailingChecks(o) ==
  { k \in 1..4 : \/ k = 1 /\ Missing(o.from)
                 \/ k = 2 /\ Missing(o.to)
                 \/ k = 3 /\ Missing(o.subject)
                 \/ k = 4 /\ Missing(o.html) /\ Missing(o.text) }

CheckMessage ==
  << "JetEmail: \"from\" is required",
     "JetEmail: \"to\" is required",
     "JetEmail: \"subject\" is required",
     "JetEmail: at least one of \"html\" or \"text\" is required" >>

Least(S) == CHOOSE x \in S : \A y \in S : x <= y

\* A batch that passes the list and size checks.
SizedBatch(c) ==
  /\ Started(c)
  /\ calls[c].op = "batch"
  /\ calls[c].emails.isArray
  /\ Len(calls[c].emails.items) \in 1..100

InvalidPositions(c) ==
  { i \in 1..Len(calls[c].emails.items) : RequestInvalid(calls[c].emails.items[i]) }

\* C6: for a batch of 1 to 100 items with at least one invalid item, batch.send
\* fails with "JetEmail: email at index k is invalid - <reason>", k the
\* zero-based index of the first invalid item and <reason> the message that
\* single-item validation gives for that item; later invalid items are not
\* reported.
C6_FirstInvalidItemReported ==
  \A c \in CallIds :
    (SizedBatch(c) /\ InvalidPositions(c) # {})
      => LET first == Least(InvalidPositions(c))
             reason == Emails_validateEmailOptions(calls[c].emails.items[first])
         IN /\ reason.threw
            /\ Failed(c)
            /\ calls[c].error.message
                 = "JetEmail: email at index " \o ToString(first - 1)
                   \o " is invalid - " \o reason.error.message

\* A batch of 100 items whose second item lacks its recipient and whose last
\* item lacks its subject was rejected for index 1 alone.
C6_Witness ==
  /\ calls[1].op = "batch"
  /\ calls[1].emails = Batch(TRUE, LongItems(100, 100, 2))
  /\ calls[1].error.message
       = "JetEmail: email at index 1 is invalid - JetEmail: \"to\" is required"

\* Which of the list conditions of batch.send an argument meets.
BatchCondition(c) ==
  IF ~calls[c].emails.isArray THEN "not-a-list"
  ELSE IF Len(calls[c].emails.items) = 0 THEN "empty"
  ELSE IF Len(calls[c].emails.items) > 100 THEN "oversize"
  ELSE "sized"

BadBatch(c) == Started(c) /\ calls[c].op = "batch" /\ BatchCondition(c) # "sized"

BadBatchRejected ==
  \A c \in CallIds :
    BadBatch(c) => calls[c].pc = "done" /\ Failed(c) /\ RequestsOf(c) = {}

\* C7 as stated: batch.send rejects a non-list, an empty list and every list of
\* more than 100 items, and the messages of the three conditions are pairwise
\* distinct.
C7_ThreeDistinctMessages ==
  /\ BadBatchRejected
  /\ \A a, b \in CallIds :
       (BadBatch(a) /\ BadBatch(b) /\ BatchCondition(a) # BatchCondition(b))
         => calls[a].error.message # calls[b].error.message

\* C7 as amended: the three conditions are rejected; a non-list and an empty
\* list get one and the same message, and the message for more than 100 items
\* differs from it.
C7_TwoDistinctMessages ==
  /\ BadBatchRejected
  /\ \A a, b \in CallIds :
       (BadBatch(a) /\ BadBatch(b))
         => (calls[a].error.message = calls[b].error.message
               <=> (BatchCondition(a) = "oversize" <=> BatchCondition(b) = "oversize"))

\* A non-list and a list of 101 items were both rejected, with two messages.
C7_Witness ==
  \E a, b \in CallIds :
    /\ BadBatch(a) /\ BatchCondition(a) = "not-a-list"
    /\ BadBatch(b) /\ BatchCondition(b) = "oversize"
    /\ Failed(a) /\ Failed(b)
    /\ calls[a].error.message # calls[b].error.message

\* C8: validation of one request checks sender, recipient, subject, content in
\* this order and reports the first failing check only, each check with its
\* own message; a request passing all four raises nothing (its request is
\* issued).  Stated for email.send and for the one item of a one-item batch.
C8_FirstFailingCheckWins ==
  /\ \A i, j \in 1..4 : i # j => CheckMessage[i] # CheckMessage[j]
  /\ \A c \in CallIds :
       (Started(c) /\ calls[c].op = "email")
         => LET failing == FailingChecks(calls[c].options) IN
            IF failing = {}
              THEN calls[c].req # 0 /\ RequestsOf(c) # {}
              ELSE Failed(c) /\ calls[c].error.message = CheckMessage[Least(failing)]
  /\ \A c \in CallIds :
       (SizedBatch(c) /\ Len(calls[c].emails.items) = 1)
         => LET failing == FailingChecks(calls[c].emails.items[1]) IN
            IF failing = {}
              THEN calls[c].req # 0 /\ RequestsOf(c) # {}
              ELSE /\ Failed(c)
                   /\ calls[c].error.message
                        = "JetEmail: email at index 0 is invalid - "
                          \o CheckMessage[Least(failing)]

\* A request failing the recipient, subject and content checks at once was
\* rejected with the recipient message.
C8_Witness ==
  /\ calls[1].op = "email"
  /\ FailingChecks(calls[1].options) = { 2, 3, 4 }
  /\ calls[1].error.message = "JetEmail: \"to\" is required"

\* C9 as stated: a local validation failure is thrown at the call itself,
\* before the caller receives any promise.
C9_ThrownAtTheCall ==
  \A c \in CallIds :
    (Started(c) /\ FailsLocalValidation(calls[c]))
      => calls[c].thrown /\ calls[c].promise = "none"

\* C9 as amended: a local validation failure never throws at the call; the
\* call returns a promise that is already rejected with the validation error
\* (a plain Error) when the caller receives it, and no request was issued.
C9_RejectedPromiseReturned ==
  \A c \in CallIds :
    (Started(c) /\ FailsLocalValidation(calls[c]))
      => /\ ~calls[c].thrown
         /\ calls[c].promise = "rejected"
         /\ calls[c].pc = "done"
         /\ calls[c].error.name = "Error"
         /\ calls[c].req = 0

\* batch.send([]) returned a promise rejected with the empty-array message.
C9_Witness ==
  /\ calls[1].op = "batch"
  /\ calls[1].emails = Batch(TRUE, << >>)
  /\ ~calls[1].thrown
  /\ calls[1].promise = "rejected"
  /\ calls[1].error.message = "JetEmail: emails array is required and must not be empty"

\* The credential handed to the constructor.
CredentialGiven(arg) == IF arg.t = "string" THEN arg.v ELSE arg.apiKey.v

\* The object a serialized JSON object decodes to: each field of a send
\* request with the value of its member, undefined where there is none.
ParseObject(json) ==
  [f \in { "from", "to", "subject", "html", "text", "cc" } |->
     IF \E i \in 1..Len(json.members) : json.members[i].key = f
       THEN json.members[CHOOSE i \in 1..Len(json.members) : json.members[i].key = f].value
       ELSE JSUndefined]

WellFormedObject(json) ==
  /\ json.t = "object"
  /\ \A i \in 1..Len(json.members) : json.members[i].value.t # "undefined"
  /\ \A i, j \in 1..Len(json.members) :
       json.members[i].key = json.members[j].key => i = j

\* C10: every request is a POST to baseAddress + path with Content-Type
\* application/json and Authorization "Bearer <credential>", the non-empty
\* credential given at construction (no client exists without one);
\* email.send uses /email with the request object as body, batch.send uses
\* /email-batch with body {emails: the input list, same items, same order}.
C10_RequestShape ==
  /\ client.constructed => CredentialGiven(ctorArg) # ""
  /\ (ctorArg # NoArg /\ CredentialGiven(ctorArg) = "")
       => ~client.constructed /\ ctorError # NoError
  /\ \A i \in 1..Len(requests) :
       LET r == requests[i].args
           call == calls[requests[i].call]
       IN /\ r.method = "POST"
          /\ r.headers.ContentType = "application/json"
          /\ r.headers.Authorization = "Bearer " \o CredentialGiven(ctorArg)
          /\ CredentialGiven(ctorArg) # ""
          /\ IF call.op = "email"
               THEN /\ r.url = client.baseUrl \o << "/", "e", "m", "a", "i", "l" >>
                    /\ WellFormedObject(r.body)
                    /\ ParseObject(r.body) = call.options
               ELSE /\ r.url = client.baseUrl
                          \o << "/", "e", "m", "a", "i", "l", "-", "b", "a", "t", "c", "h" >>
                    /\ r.body.t = "object"
                    /\ Len(r.body.members) = 1
                    /\ r.body.members[1].key = "emails"
                    /\ r.body.members[1].value.t = "array"
                    /\ Len(r.body.members[1].value.items) = Len(call.emails.items)
                    /\ \A j \in 1..Len(call.emails.items) :
                         /\ WellFormedObject(r.body.members[1].value.items[j])
                         /\ ParseObject(r.body.members[1].value.items[j])
                              = call.emails.items[j]

\* A batch of two different items went out under a client built from a
\* configuration object, to <base>/email-batch with its bearer credential.
C10_Witness ==
  /\ Len(requests) = 1
  /\ ctorArg = ConfigArg(Str("sk_test_2"), Url(<< "h", "/", "v" >>))
  /\ calls[1].emails = Batch(TRUE, << ValidTextItem, ValidItem >>)
  /\ requests[1].args.headers.Authorization = "Bearer sk_test_2"
  /\ requests[1].args.url
       = << "h", "/", "v", "/", "e", "m", "a", "i", "l", "-", "b", "a", "t", "c", "h" >>
  /\ Len(requests[1].args.body.members[1].value.items) = 2

\* The base-address override handed to the constructor (none with a bare
\* credential string).
OverrideGiven(arg) == IF arg.t = "string" THEN UndefinedUrl ELSE arg.baseUrl

EndsWithSlash(chars) == Len(chars) > 0 /\ chars[Len(chars)] = "/"

\* The path of a request: what follows the client's base address in its URL.
PathOf(i) ==
  IF calls[requests[i].call].op = "email"
    THEN << "/", "e", "m", "a", "i", "l" >>
    ELSE << "/", "e", "m", "a", "i", "l", "-", "b", "a", "t", "c", "h" >>

\* The base address a URL was built on: the URL without its path.
BaseOf(i) ==
  SubSeq(requests[i].args.url, 1, Len(requests[i].args.url) - Len(PathOf(i)))

\* C11: the base address of every request is https://api.jetemail.com when no
\* override was supplied; otherwise it is the override with exactly one
\* trailing slash removed if it ends with one (unchanged if it ends with none,
\* one slash shorter if it ends with several).
C11_BaseAddress ==
  \A i \in 1..Len(requests) :
    LET given == OverrideGiven(ctorArg)
        base == BaseOf(i)
    IN /\ requests[i].args.url = base \o PathOf(i)
       /\ IF given.t = "undefined"
            THEN base = << "h", "t", "t", "p", "s", ":", "/", "/", "a", "p", "i", ".",
                           "j", "e", "t", "e", "m", "a", "i", "l", ".", "c", "o", "m" >>
            ELSE IF EndsWithSlash(given.chars)
              THEN base \o << "/" >> = given.chars
              ELSE base = given.chars

\* A request went out under the override "h//": its base address is "h/".
C11_Witness ==
  /\ Len(requests) = 1
  /\ OverrideGiven(ctorArg) = Url(<< "h", "/", "/" >>)
  /\ calls[1].op = "email"
  /\ requests[1].args.url = << "h", "/", "/", "e", "m", "a", "i", "l" >>

\* C12: every error raised by local validation (missing field, malformed
\* batch, batch size, invalid batch item) is a plain Error, never a
\* JetEmailError; a JetEmailError exists only once a network response has been
\* received.
C12_ValidationErrorsArePlain ==
  /\ \A c \in CallIds :
       (Started(c) /\ FailsLocalValidation(calls[c]))
         => /\ calls[c].error.name = "Error"
            /\ calls[c].error.statusCode = {}
            /\ calls[c].error.response.t = "undefined"
  /\ \A c \in CallIds :
       calls[c].error.name = "JetEmailError"
         => /\ calls[c].req # 0
            /\ ReplyOf(c).state = "responded"
            /\ ~FailsLocalValidation(calls[c])

\* A batch with an invalid item was rejected with a plain Error.
C12_Witness ==
  /\ calls[1].op = "batch"
  /\ calls[1].emails = Batch(TRUE, << ValidItem, NoContentItem >>)
  /\ calls[1].promise = "rejected"
  /\ calls[1].error.name = "Error"
  /\ calls[1].error.message
       = "JetEmail: email at index 1 is invalid - JetEmail: at least one of \"html\" or \"text\" is required"

\* C14: when the transport itself fails (fetch rejects: no response, no
\* status), the send fails with the transport's own error, unchanged; it is
\* not turned into a JetEmailError, the body is never decoded and no second
\* request is issued.
C14_TransportErrorPassesThrough ==
  \A c \in CallIds :
    (calls[c].req # 0 /\ ReplyOf(c).state = "failed")
      => /\ calls[c].pc = "done"
         /\ calls[c].promise = "rejected"
         /\ ~calls[c].thrown
         /\ calls[c].error = ReplyOf(c).failure
         /\ calls[c].error.name # "JetEmailError"
         /\ calls[c].error.statusCode = {}
         /\ ReplyOf(c).body = "unread"
         /\ calls[c].response = NoResponse
         /\ Cardinality(RequestsOf(c)) = 1

\* The one request of a batch send was aborted by the transport and the send
\* was rejected with that abort error.
C14_Witness ==
  /\ calls[1].op = "batch"
  /\ Len(requests) = 1
  /\ replies[1].state = "failed"
  /\ replies[1].failure = AbortError
  /\ calls[1].promise = "rejected"
  /\ calls[1].error.name = "AbortError"

\* What the transport answered to call c's own request (a marker if the
\* call issued none).
OwnReply(c) ==
  IF calls[c].req = 0 THEN [PendingReply EXCEPT !.state = "no request"]
  ELSE ReplyOf(c)

Outcome(c) ==
  << calls[c].promise, calls[c].thrown, calls[c].error, calls[c].value >>

\* Each request belongs to the call that holds its index, and the response a
\* call works on is the one given to its own request.
OwnResponseOnly ==
  /\ \A c \in CallIds :
       calls[c].req # 0
         => /\ calls[c].req \in 1..Len(requests)
            /\ requests[calls[c].req].call = c
            /\ RequestsOf(c) = { calls[c].req }
  /\ \A c \in CallIds :
       (calls[c].req # 0 /\ ReplyOf(c).state = "responded")
         => /\ calls[c].pc \in { "json", "done" }
            /\ calls[c].response.status = ReplyOf(c).status
            /\ calls[c].response.ok = Is2xx(ReplyOf(c).status)
  /\ \A c \in CallIds :
       (calls[c].pc = "done" /\ calls[c].promise = "fulfilled")
         => calls[c].value = ReplyOf(c).data

\* Two finished calls with the same arguments and the same answer to their
\* own request have the same outcome, whatever the other call went through.
OutcomeFromOwnData ==
  \A a, b \in CallIds :
    ( /\ calls[a].pc = "done" /\ calls[b].pc = "done"
      /\ calls[a].op = calls[b].op
      /\ calls[a].options = calls[b].options
      /\ calls[a].emails = calls[b].emails
      /\ OwnReply(a) = OwnReply(b) )
      => Outcome(a) = Outcome(b)

\* A step touches one call at most, never a finished one, and leaves the
\* credential and base address of a constructed client as they are.
IndependentStep ==
  /\ \A a, b \in CallIds :
       (a # b /\ calls'[a] # calls[a]) => calls'[b] = calls[b]
  /\ \A c \in CallIds : calls[c].pc = "done" => calls'[c] = calls[c]
  /\ client.constructed => client' = client

\* C13: for any interleaving of in-flight email.send and batch.send calls on
\* one client, each call's outcome depends only on its own request and the
\* response to its own POST (no response reaches another call, no call's
\* failure changes another's outcome), and the client's credential and base
\* address keep the values they had after construction.
C13_CallsAreIndependent ==
  /\ [](OwnResponseOnly /\ OutcomeFromOwnData)
  /\ [][IndependentStep]_vars

\* The first call still waits for the body of its 200 response while the
\* second, started later, has already failed on a 500.
C13_Witness ==
  /\ calls[1].pc = "json"
  /\ calls[1].response.status = 200
  /\ calls[2].pc = "done"
  /\ calls[2].promise = "rejected"
  /\ calls[2].error.statusCode = { 500 }
  /\ ReplyOf(1).status = 200

====
